---- MODULE Spec2Model ----
(***************************************************************************)
(* Fraud scoring engine of AiConstructorManager                            *)
(* (src/backend/app/fraud_detector.py) and its callers in                  *)
(* src/backend/app/main.py.                                                *)
(*                                                                         *)
(* Python values are tagged records:                                       *)
(*   [t |-> "none"]                 None (also what dict.get gives for a   *)
(*                                  key that is absent)                    *)
(*   [t |-> "num",  v |-> n]        int/float, n in thousandths of a unit  *)
(*   [t |-> "str",  s |-> chars]    str, a tuple of one-character strings  *)
(*   [t |-> "dict", d |-> f]        dict, f a function on its keys         *)
(*   [t |-> "list", items |-> seq]  list                                   *)
(* Amounts are fixed-point with three fractional digits, so that           *)
(* round(x, 2) is a real conversion.  Scores are whole points.             *)
(***************************************************************************)
EXTENDS Integers, Sequences, FiniteSets, TLC

-----------------------------------------------------------------------------
(* Python values *)

PyNone == [t |-> "none"]
PyNum(n) == [t |-> "num", v |-> n]
PyStr(chars) == [t |-> "str", s |-> chars]
PyDict(f) == [t |-> "dict", d |-> f]
PyList(seq) == [t |-> "list", items |-> seq]

\* One unit of currency in the model's fixed-point representation.
Unit == 10 * 10 * 10

\* bool(value): the truth value Python's `or` / `not` / `if` test.
Truthy(value) ==
    CASE value.t = "none" -> FALSE
      [] value.t = "num"  -> value.v # 0
      [] value.t = "str"  -> Len(value.s) > 0
      [] value.t = "dict" -> DOMAIN value.d # {}
      [] value.t = "list" -> Len(value.items) > 0

\* a or b
PyOr(a, b) == IF Truthy(a) THEN a ELSE b

\* mapping.get(key): None when the key is absent.
Get(mapping, key) == IF key \in DOMAIN mapping THEN mapping[key] ELSE PyNone

-----------------------------------------------------------------------------
(* Characters and float(str) *)

Digits == {"0", "1", "2", "3", "4", "5", "6", "7", "8", "9"}

UpperLetters ==
    {"A", "B", "C", "D", "E", "F", "G", "H", "I", "J", "K", "L", "M",
     "N", "O", "P", "Q", "R", "S", "T", "U", "V", "W", "X", "Y", "Z"}

\* The currency sign of the source's regular expression, line 265.
Rupee == "Rs"

DigitVal(c) ==
    CASE c = "0" -> 0 [] c = "1" -> 1 [] c = "2" -> 2 [] c = "3" -> 3
      [] c = "4" -> 4 [] c = "5" -> 5 [] c = "6" -> 6 [] c = "7" -> 7
      [] c = "8" -> 8 [] c = "9" -> 9

RECURSIVE IntOf(_)
IntOf(chars) ==
    IF chars = <<>> THEN 0
    ELSE IntOf(SubSeq(chars, 1, Len(chars) - 1)) * 10 + DigitVal(chars[Len(chars)])

RECURSIVE Filter(_, _)
\* The characters of chars that are in keep, in order.
Filter(chars, keep) ==
    IF chars = <<>> THEN <<>>
    ELSE IF chars[1] \in keep THEN <<chars[1]>> \o Filter(Tail(chars), keep)
    ELSE Filter(Tail(chars), keep)

RECURSIVE Without(_, _)
\* re.sub(r'[...]', '', chars): chars with the characters of drop removed.
Without(chars, drop) ==
    IF chars = <<>> THEN <<>>
    ELSE IF chars[1] \in drop THEN Without(Tail(chars), drop)
    ELSE <<chars[1]>> \o Without(Tail(chars), drop)

AllIn(chars, set) == \A i \in 1..Len(chars) : chars[i] \in set

\* Fractional digits as thousandths: "5" -> 500, "25" -> 250, "004" -> 4.
FracVal(chars) ==
    CASE Len(chars) = 0 -> 0
      [] Len(chars) = 1 -> IntOf(chars) * 100
      [] Len(chars) = 2 -> IntOf(chars) * 10
      [] OTHER -> IntOf(SubSeq(chars, 1, 3))

\* float(chars) for the decimal literals [-]digits[.digits] (inputs carry at
\* most three fractional digits); anything else is a ValueError.
ParseFloat(chars) ==
    LET neg == Len(chars) > 0 /\ chars[1] = "-"
        body == IF neg THEN Tail(chars) ELSE chars
        dots == {i \in 1..Len(body) : body[i] = "."}
        dot == IF dots = {} THEN Len(body) + 1 ELSE CHOOSE i \in dots : TRUE
        ip == SubSeq(body, 1, dot - 1)
        fp == SubSeq(body, dot + 1, Len(body))
        ok == /\ Cardinality(dots) <= 1
              /\ Len(ip) + Len(fp) > 0
              /\ AllIn(ip, Digits) /\ AllIn(fp, Digits)
        mag == IntOf(ip) * Unit + FracVal(fp)
    IN  IF ok THEN [ok |-> TRUE, v |-> IF neg THEN 0 - mag ELSE mag]
        ELSE [ok |-> FALSE, v |-> 0]

RECURSIVE _extract_number(_)
\* FraudDetector._extract_number: never None, 0.0 for whatever it cannot read.
_extract_number(value) ==
    CASE value.t = "none" -> 0
      [] value.t = "num"  -> value.v
      [] value.t = "str"  ->
            LET r == ParseFloat(Without(value.s, {Rupee, ",", "$", " "}))
            IN  IF r.ok THEN r.v ELSE 0
      [] value.t = "dict" ->
            IF "value" \in DOMAIN value.d THEN _extract_number(value.d["value"]) ELSE 0
      [] OTHER -> 0

Abs(x) == IF x < 0 THEN 0 - x ELSE x

\* round(x, 2) of an amount in thousandths (ties to even, as Python rounds).
Round2(x) ==
    LET q == x \div 10
        r == x % 10
    IN  10 * (IF r < 5 THEN q ELSE IF r > 5 THEN q + 1 ELSE IF q % 2 = 0 THEN q ELSE q + 1)

\* round(qty * rate, 2): the product of two amounts in thousandths is in
\* millionths; the result is in thousandths again.
Round2Product(qty, rate) ==
    LET p == qty * rate
        q == p \div 10000
        r == p % 10000
    IN  10 * (IF r < 5000 THEN q ELSE IF r > 5000 THEN q + 1 ELSE IF q % 2 = 0 THEN q ELSE q + 1)

-----------------------------------------------------------------------------
(* Scoring weights, thresholds and tolerances (literals of fraud_detector.py) *)

HIGH_MISMATCH_PENALTY == 40
MINOR_MISMATCH_PENALTY == 20
GSTIN_PENALTY == 15
MISSING_FIELD_PENALTY == 5
NO_LINE_ITEMS_PENALTY == 10
CALC_ERROR_PENALTY == 8
CALC_ERROR_CAP == 25
SUSPICIOUS_THRESHOLD == 30
REVIEW_THRESHOLD == 15
REJECT_THRESHOLD == 40
GSTIN_LENGTH == 15

\* Tolerances and discrepancy tiers, in thousandths.
SUM_TOLERANCE == 1 * Unit
MINOR_DIFFERENCE == 10 * Unit
HIGH_DIFFERENCE == 100 * Unit
ITEM_TOLERANCE == Unit \div 2

-----------------------------------------------------------------------------
(* Invoice math *)

\* parsed_data.get("line_items", []): the default only when the key is absent.
LineItemsOf(parsed_data) ==
    IF "line_items" \in DOMAIN parsed_data THEN parsed_data["line_items"] ELSE PyList(<<>>)

RECURSIVE KeysAsItems(_)
KeysAsItems(keys) ==
    IF keys = {} THEN <<>>
    ELSE LET k == CHOOSE x \in keys : TRUE
         IN  <<PyStr(<<k>>)>> \o KeysAsItems(keys \ {k})

\* `for item in line_items`: what the loop visits, or a TypeError.
Iterate(value) ==
    CASE value.t = "list" -> [raised |-> FALSE, items |-> value.items]
      [] value.t = "str"  ->
            [raised |-> FALSE, items |-> [i \in 1..Len(value.s) |-> PyStr(<<value.s[i]>>)]]
      [] value.t = "dict" -> [raised |-> FALSE, items |-> KeysAsItems(DOMAIN value.d)]
      [] OTHER -> [raised |-> TRUE, items |-> <<>>]

\* item.get(...) raises AttributeError on anything that is not a mapping.
HasGet(item) == item.t = "dict"

\* The line total as the sum check reads it, lines 108-113.
SumItemTotal(item) ==
    _extract_number(
        PyOr(PyOr(PyOr(PyOr(Get(item.d, "total"), Get(item.d, "amount")),
                       Get(item.d, "Amount")), Get(item.d, "TotalPrice")), PyNum(0)))

RECURSIVE SumOfLineTotals(_)
SumOfLineTotals(items) ==
    IF items = <<>> THEN 0
    ELSE SumItemTotal(items[1]) + SumOfLineTotals(Tail(items))

\* The declared invoice total, lines 97-101.
InvoiceTotalOf(parsed_data) ==
    _extract_number(
        PyOr(PyOr(PyOr(Get(parsed_data, "total_amount"), Get(parsed_data, "InvoiceTotal")),
                  Get(parsed_data, "Amount")), PyNum(0)))

NoValidations ==
    [invoice_total |-> 0, sum_of_line_totals |-> 0, sum_ok |-> FALSE,
     difference |-> 0, gstin_validation |-> FALSE]

\* SumOk with a strict comparison.
SumOkStrict(difference) == difference < SUM_TOLERANCE

SumOk(difference) == difference <= SUM_TOLERANCE

\* FraudDetector._validate_invoice_math: [raised, validations].
_validate_invoice_math(parsed_data) ==
    LET invoice_total == InvoiceTotalOf(parsed_data)
        it == Iterate(LineItemsOf(parsed_data))
        raised == it.raised \/ \E i \in 1..Len(it.items) : ~HasGet(it.items[i])
        sum_of_line_totals == SumOfLineTotals(it.items)
        difference == Abs(invoice_total - sum_of_line_totals)
    IN  IF raised THEN [raised |-> TRUE, validations |-> NoValidations]
        ELSE [raised |-> FALSE,
              validations |->
                  [invoice_total |-> invoice_total,
                   sum_of_line_totals |-> sum_of_line_totals,
                   sum_ok |-> SumOk(difference),
                   difference |-> difference,
                   gstin_validation |-> FALSE]]

-----------------------------------------------------------------------------
(* Tax identifier *)

possible_fields ==
    <<"vendor_gstin", "customer_gstin", "gstin", "GSTIN", "gst_number", "GST",
      "tax_id", "supplier_gstin", "VendorTaxId", "SellerTaxId">>

LowerSeq ==
    <<"a", "b", "c", "d", "e", "f", "g", "h", "i", "j", "k", "l", "m",
      "n", "o", "p", "q", "r", "s", "t", "u", "v", "w", "x", "y", "z">>

UpperSeq ==
    <<"A", "B", "C", "D", "E", "F", "G", "H", "I", "J", "K", "L", "M",
      "N", "O", "P", "Q", "R", "S", "T", "U", "V", "W", "X", "Y", "Z">>

UpperChar(c) ==
    IF \E i \in 1..Len(LowerSeq) : LowerSeq[i] = c
    THEN UpperSeq[CHOOSE i \in 1..Len(LowerSeq) : LowerSeq[i] = c]
    ELSE c

\* str.upper()
Upper(chars) == [i \in 1..Len(chars) |-> UpperChar(chars[i])]

RECURSIVE Strip(_)
\* str.strip()
Strip(chars) ==
    IF chars = <<>> THEN <<>>
    ELSE IF chars[1] = " " THEN Strip(Tail(chars))
    ELSE IF chars[Len(chars)] = " " THEN Strip(SubSeq(chars, 1, Len(chars) - 1))
    ELSE chars

DigitChar(n) ==
    CASE n = 0 -> "0" [] n = 1 -> "1" [] n = 2 -> "2" [] n = 3 -> "3" [] n = 4 -> "4"
      [] n = 5 -> "5" [] n = 6 -> "6" [] n = 7 -> "7" [] n = 8 -> "8" [] n = 9 -> "9"

RECURSIVE NatChars(_)
NatChars(n) == IF n < 10 THEN <<DigitChar(n)>> ELSE NatChars(n \div 10) \o <<DigitChar(n % 10)>>

\* str(value) for the values a tax-identifier field can hold.
Str(value) ==
    CASE value.t = "str"  -> value.s
      [] value.t = "none" -> <<"N", "o", "n", "e">>
      [] value.t = "num"  ->
            (IF value.v < 0 THEN <<"-">> ELSE <<>>) \o NatChars(Abs(value.v) \div Unit)
                \o <<".">> \o NatChars(Abs(value.v) % Unit)
      [] OTHER -> <<"{", "}">>

RECURSIVE FirstTruthyField(_, _)
\* The first alias, from position i on, that is present and truthy; 0 if none.
FirstTruthyField(mapping, i) ==
    IF i > Len(possible_fields) THEN 0
    ELSE IF Truthy(Get(mapping, possible_fields[i])) THEN i
    ELSE FirstTruthyField(mapping, i + 1)

RECURSIVE FirstPresentField(_, _)
\* The first alias, from position i on, that is a key of the mapping; 0 if none.
FirstPresentField(mapping, i) ==
    IF i > Len(possible_fields) THEN 0
    ELSE IF possible_fields[i] \in DOMAIN mapping THEN i
    ELSE FirstPresentField(mapping, i + 1)

\* Lines 133-154: the candidate string, <<>> when nothing was found.
FindGstin(parsed_data) ==
    LET top == FirstTruthyField(parsed_data, 1)
        found == IF top = 0 THEN <<>> ELSE Strip(Str(parsed_data[possible_fields[top]]))
        vendor_info == IF "vendor" \in DOMAIN parsed_data THEN parsed_data["vendor"]
                       ELSE PyDict(<<>>)
        nested == IF vendor_info.t = "dict" THEN FirstPresentField(vendor_info.d, 1) ELSE 0
    IN  IF found # <<>> THEN found
        ELSE IF nested = 0 THEN found
        ELSE Strip(Str(vendor_info.d[possible_fields[nested]]))

\* GstinFormatOk without the length test.
GstinFormatAnyLength(candidate) ==
    LET gstin == Filter(Upper(candidate), UpperLetters \cup Digits)
    IN  /\ Len(gstin) >= 2
        /\ AllIn(SubSeq(gstin, 1, 2), Digits)

\* Lines 159-169: normalise, then length and segment grammar.
GstinFormatOk(candidate) ==
    LET gstin == Filter(Upper(candidate), UpperLetters \cup Digits)
    IN  /\ Len(gstin) = GSTIN_LENGTH
        /\ AllIn(SubSeq(gstin, 1, 2), Digits)
        /\ gstin[13] \in Digits
        /\ gstin[14] = "Z"

valid_test_gstins ==
    {<<"2", "9", "A", "A", "F", "C", "D", "5", "8", "6", "2", "R", "0", "0", "0">>,
     <<"0", "9", "A", "A", "A", "C", "F", "5", "8", "6", "2", "R", "1", "Z", "N">>,
     <<"2", "4", "G", "J", "S", "P", "S", "1", "2", "7", "9", "A", "1", "Z", "X">>}

\* _verify_gstin_api answering False for an identifier it does not know.
VerifyKnownOnly(gstin, api_key_set) == ~api_key_set \/ gstin \in valid_test_gstins

\* FraudDetector._verify_gstin_api: every branch answers True.
_verify_gstin_api(gstin, api_key_set) ==
    IF ~api_key_set THEN TRUE
    ELSE IF gstin \in valid_test_gstins THEN TRUE
    ELSE TRUE

\* FraudDetector._validate_gstin
_validate_gstin(parsed_data, api_key_set) ==
    LET candidate == FindGstin(parsed_data)
    IN  IF candidate = <<>> THEN FALSE
        ELSE IF ~GstinFormatOk(candidate) THEN FALSE
        ELSE _verify_gstin_api(Filter(Upper(candidate), UpperLetters \cup Digits), api_key_set)

-----------------------------------------------------------------------------
(* The detector.  A FraudDetector is [fraud_score, fraud_reasons, lists]:   *)
(* fraud_reasons is a reference into lists, the list objects created so   *)
(* far, so that a report's "reasons" can alias the detector's list as it   *)
(* does in the source (line 86).                                           *)

Reason(kind, n) == [k |-> kind, n |-> n]

Min(a, b) == IF a < b THEN a ELSE b

\* FraudDetector.__init__
NewDetector == [fraud_score |-> 0, fraud_reasons |-> 1, lists |-> << <<>> >>]

\* ResetDetector that empties the list in place (self.fraud_reasons.clear()).
ResetDetectorInPlace(self) ==
    [self EXCEPT !.fraud_score = 0, !.lists[self.fraud_reasons] = <<>>]

\* Lines 51-52: a new empty list is bound to self.fraud_reasons.
ResetDetector(self) ==
    [fraud_score |-> 0,
     fraud_reasons |-> Len(self.lists) + 1,
     lists |-> Append(self.lists, <<>>)]

\* AddFinding that puts the reason at the head (self.fraud_reasons.insert(0, reason)).
AddFindingAtHead(self, points, reason) ==
    [self EXCEPT !.fraud_score = @ + points,
                 !.lists[self.fraud_reasons] = <<reason>> \o @]

\* self.fraud_score += points; self.fraud_reasons.append(reason)
AddFinding(self, points, reason) ==
    [self EXCEPT !.fraud_score = @ + points,
                 !.lists[self.fraud_reasons] = Append(@, reason)]

\* CheckMath with >= at the tier boundaries.
CheckMathInclusive(self, validations) ==
    IF validations.sum_ok THEN self
    ELSE LET difference == Abs(validations.invoice_total - validations.sum_of_line_totals)
         IN  IF difference >= HIGH_DIFFERENCE
             THEN AddFinding(self, HIGH_MISMATCH_PENALTY,
                             Reason("Invoice total mismatch", Round2(difference)))
             ELSE IF difference >= MINOR_DIFFERENCE
             THEN AddFinding(self, MINOR_MISMATCH_PENALTY,
                             Reason("Minor invoice total mismatch", Round2(difference)))
             ELSE self

\* Check 1, lines 60-67.
CheckMath(self, validations) ==
    IF validations.sum_ok THEN self
    ELSE LET difference == Abs(validations.invoice_total - validations.sum_of_line_totals)
         IN  IF difference > HIGH_DIFFERENCE
             THEN AddFinding(self, HIGH_MISMATCH_PENALTY,
                             Reason("Invoice total mismatch", Round2(difference)))
             ELSE IF difference > MINOR_DIFFERENCE
             THEN AddFinding(self, MINOR_MISMATCH_PENALTY,
                             Reason("Minor invoice total mismatch", Round2(difference)))
             ELSE self

\* CheckGstin that adds the penalty without a reason.
CheckGstinSilent(self, gstin_valid) ==
    IF gstin_valid THEN self ELSE [self EXCEPT !.fraud_score = @ + GSTIN_PENALTY]

\* Check 2, lines 70-72.
CheckGstin(self, gstin_valid) ==
    IF gstin_valid THEN self
    ELSE AddFinding(self, GSTIN_PENALTY, Reason("Invalid or missing GSTIN number", 0))

required_fields == <<"vendor", "invoice_id", "total_amount">>

\* FraudDetector._check_missing_info
_check_missing_info(self, parsed_data) ==
    LET missing_count ==
            Cardinality({i \in 1..Len(required_fields) :
                            ~Truthy(Get(parsed_data, required_fields[i]))})
    IN  IF missing_count > 0
        THEN AddFinding(self, missing_count * MISSING_FIELD_PENALTY,
                        Reason("critical field(s) missing from invoice", missing_count))
        ELSE self

\* Lines 238-248: whether the per-item check counts the item as an error.
\* _extract_number never gives None, so the `is not None` guard always passes.
IsCalculationError(item) ==
    LET qty == _extract_number(PyOr(Get(item.d, "qty"), Get(item.d, "quantity")))
        rate == _extract_number(
                    PyOr(PyOr(Get(item.d, "rate"), Get(item.d, "unit_price")),
                         Get(item.d, "price")))
        total == _extract_number(PyOr(Get(item.d, "total"), Get(item.d, "amount")))
        expected == Round2Product(qty, rate)
        actual == Round2(total)
    IN  Abs(expected - actual) > ITEM_TOLERANCE

\* CalcErrorPenalty without the cap.
CalcErrorPenaltyUncapped(calculation_errors) == calculation_errors * CALC_ERROR_PENALTY

\* CalcErrorPenalty with a cap above the item penalty's fourth multiple.
CalcErrorPenaltyLooseCap(calculation_errors) ==
    Min(4 * CALC_ERROR_PENALTY, calculation_errors * CALC_ERROR_PENALTY)

\* Lines 250-252.
CalcErrorPenalty(calculation_errors) ==
    Min(CALC_ERROR_CAP, calculation_errors * CALC_ERROR_PENALTY)

\* NoLineItems testing for None only.
NoLineItemsNullOnly(line_items) == line_items.t = "none"

\* Line 230: `if not line_items`.
NoLineItems(line_items) == ~Truthy(line_items)

\* FraudDetector._check_line_item_anomalies: [raised, self].
_check_line_item_anomalies(self, parsed_data) ==
    LET line_items == LineItemsOf(parsed_data)
        it == Iterate(line_items)
        calculation_errors ==
            Cardinality({i \in 1..Len(it.items) : IsCalculationError(it.items[i])})
    IN  IF NoLineItems(line_items)
        THEN [raised |-> FALSE,
              self |-> AddFinding(self, NO_LINE_ITEMS_PENALTY,
                                  Reason("No line items found in invoice", 0))]
        ELSE IF it.raised \/ \E i \in 1..Len(it.items) : ~HasGet(it.items[i])
        THEN [raised |-> TRUE, self |-> self]
        ELSE IF calculation_errors > 0
        THEN [raised |-> FALSE,
              self |-> AddFinding(self, CalcErrorPenalty(calculation_errors),
                                  Reason("line item(s) with calculation errors",
                                         calculation_errors))]
        ELSE [raised |-> FALSE, self |-> self]

\* _get_recommendation with <= for the first threshold.
GetRecommendationInclusive(fraud_score) ==
    IF fraud_score <= REVIEW_THRESHOLD THEN "approve"
    ELSE IF fraud_score < REJECT_THRESHOLD THEN "review"
    ELSE "reject"

\* FraudDetector._get_recommendation
_get_recommendation(fraud_score) ==
    IF fraud_score < REVIEW_THRESHOLD THEN "approve"
    ELSE IF fraud_score < REJECT_THRESHOLD THEN "review"
    ELSE "reject"

\* Line 85.
IsSuspicious(fraud_score) == fraud_score > SUSPICIOUS_THRESHOLD

\* Lines 83-89: the returned mapping; reasons is the detector's list object
\* itself, fraud_score is round(score, 2) of a whole number of points.
MakeReport(self, recommendation, validations) ==
    [fraud_score |-> self.fraud_score,
     is_suspicious |-> IsSuspicious(self.fraud_score),
     reasons |-> self.fraud_reasons,
     recommendation |-> recommendation,
     validations |-> validations]

NoReport ==
    [fraud_score |-> 0, is_suspicious |-> FALSE, reasons |-> 0,
     recommendation |-> "none", validations |-> NoValidations]

\* Score and number of reasons of the run so far.
Progress(self) == [score |-> self.fraud_score, reasons |-> Len(self.lists[self.fraud_reasons])]

\* A run of detect_fraud in progress: whether it has raised, the detector,
\* the local `validations`, and the progress after each check done so far.
Validated(self, m, gstin_valid) ==
    [raised |-> m.raised,
     self |-> self,
     validations |-> [m.validations EXCEPT !.gstin_validation = gstin_valid],
     progress |-> <<>>]

\* Lines 51-57.
BeginRun(self, parsed_data, api_key_set) ==
    Validated(ResetDetector(self), _validate_invoice_math(parsed_data),
              _validate_gstin(parsed_data, api_key_set))

After(run, self) == [run EXCEPT !.self = self, !.progress = Append(@, Progress(self))]

AfterAnomalies(run, a) == IF a.raised THEN [run EXCEPT !.raised = TRUE] ELSE After(run, a.self)

RunCheck1(run) ==
    IF run.raised THEN run ELSE After(run, CheckMath(run.self, run.validations))

RunCheck2(run) ==
    IF run.raised THEN run
    ELSE After(run, CheckGstin(run.self, run.validations.gstin_validation))

RunCheck3(run, parsed_data) ==
    IF run.raised THEN run ELSE After(run, _check_missing_info(run.self, parsed_data))

RunCheck4(run, parsed_data) ==
    IF run.raised THEN run
    ELSE AfterAnomalies(run, _check_line_item_anomalies(run.self, parsed_data))

\* Lines 81-89.
FinishRun(run) ==
    [raised |-> run.raised,
     self |-> run.self,
     report |-> IF run.raised THEN NoReport
                ELSE MakeReport(run.self, _get_recommendation(run.self.fraud_score),
                                run.validations),
     progress |-> run.progress]

\* FraudDetector.detect_fraud on detector self: whether it raised, the
\* detector afterwards, the report, and the progress after each check.
detect_fraud(self, parsed_data, api_key_set) ==
    FinishRun(
        RunCheck4(
            RunCheck3(RunCheck2(RunCheck1(BeginRun(self, parsed_data, api_key_set))),
                      parsed_data),
            parsed_data))

\* The reasons a finished run's report shows: its list, as it is in the run's
\* detector.
ReasonsOf(r) == IF r.raised THEN <<>> ELSE r.self.lists[r.report.reasons]

-----------------------------------------------------------------------------
(* Inputs: the parsed_data mappings the runs are given *)

\* Line-item lists: every sequence of at most MaxMixed items over ItemKinds,
\* and MaxMixed+1 .. MaxItems repetitions of one kind.
MaxMixed == 2
MaxItems == 4

Amount(units, thousandths) == units * Unit + thousandths

ItemKinds ==
    << \* 10 x 100 = 1000, exact
       PyDict([qty |-> PyNum(Amount(10, 0)), rate |-> PyNum(Amount(100, 0)),
               total |-> PyNum(Amount(1000, 0))]),
       \* 2 x 100 billed as 250
       PyDict([qty |-> PyNum(Amount(2, 0)), rate |-> PyNum(Amount(100, 0)),
               total |-> PyNum(Amount(250, 0))]),
       \* 2 x 100 = 200, exact, under the other aliases
       PyDict([quantity |-> PyNum(Amount(2, 0)), unit_price |-> PyNum(Amount(100, 0)),
               TotalPrice |-> PyNum(Amount(200, 0))]),
       \* an entry that is not a mapping
       PyStr(<<"x">>),
       \* 2 x 150.25 = 300.50, exact, as text and in a {value: ...} wrapper
       PyDict([qty |-> PyStr(<<"2">>),
               rate |-> PyDict([value |-> PyStr(<<Rupee, "1", "5", "0", ".", "2", "5">>)]),
               amount |-> PyStr(<<"3", "0", "0", ".", "5", "0">>)]),
       \* 1 x 100 billed as 100.504
       PyDict([qty |-> PyNum(Amount(1, 0)), rate |-> PyNum(Amount(100, 0)),
               total |-> PyNum(Amount(100, 504))]),
       \* no quantity
       PyDict([rate |-> PyNum(Amount(100, 0)), total |-> PyNum(Amount(100, 0))]) >>

NKinds == Len(ItemKinds)

ItemShapes ==
    UNION {[1..n -> 1..NKinds] : n \in 0..MaxMixed}
        \cup {[i \in 1..n |-> k] : n \in (MaxMixed + 1)..MaxItems, k \in 1..NKinds}

ItemsOfShape(shape) == [i \in 1..Len(shape) |-> ItemKinds[shape[i]]]

NoFields == [k \in {} |-> PyNone]

\* line_items: the key absent, null, or a list.
LineItemsForms == {"absent", "null", "list"}

LineItemsPart(form, shape) ==
    CASE form = "absent" -> NoFields
      [] form = "null"   -> [line_items |-> PyNone]
      [] form = "list"   -> [line_items |-> PyList(ItemsOfShape(shape))]

\* The declared total: absent, or a value under one of the aliases.
TotalParts ==
    << NoFields,
       [total_amount |-> PyNum(Amount(1000, 0))],
       [total_amount |-> PyNum(Amount(1001, 0))],
       [total_amount |-> PyNum(Amount(1001, 1))],
       [total_amount |-> PyStr(<<"1", ",", "0", "1", "0">>)],
       [total_amount |-> PyStr(<<Rupee, " ", "1", ",", "0", "1", "0", ".", "0", "1">>)],
       [total_amount |-> PyDict([value |-> PyNum(Amount(1100, 0))])],
       [total_amount |-> PyNum(Amount(1100, 10))],
       [InvoiceTotal |-> PyNum(Amount(200, 0))],
       [total_amount |-> PyStr(<<"n", "/", "a">>)] >>

\* The tax identifier: none, a well-formed one, an empty alias followed by a
\* well-formed one with separators and lower case, one of 14 characters, one
\* whose 14th character is not Z, and one of 14 characters followed by a
\* well-formed one under a later alias.
GstinParts ==
    << NoFields,
       [vendor_gstin |->
           PyStr(<<"2", "4", "G", "J", "S", "P", "S", "1", "2", "7", "9", "A", "1", "Z", "X">>)],
       [vendor_gstin |-> PyStr(<<>>),
        GSTIN |->
           PyStr(<<" ", "2", "9", "-", "a", "b", "c", "d", "e", "1", "2", "3", "4", "f",
                   "-", "1", "z", "5", " ">>)],
       [gstin |->
           PyStr(<<"2", "4", "G", "J", "S", "P", "S", "1", "2", "7", "9", "A", "1", "Z">>)],
       [tax_id |->
           PyStr(<<"2", "4", "G", "J", "S", "P", "S", "1", "2", "7", "9", "A", "1", "Y", "X">>)],
       [vendor_gstin |->
           PyStr(<<"2", "4", "G", "J", "S", "P", "S", "1", "2", "7", "9", "A", "1", "Z">>),
        customer_gstin |->
           PyStr(<<"2", "4", "G", "J", "S", "P", "S", "1", "2", "7", "9", "A", "1", "Z", "X">>)] >>

\* vendor: missing, a name, a mapping that carries a tax identifier, or a
\* mapping with an empty alias before the one that carries it.
VendorParts ==
    << NoFields,
       [vendor |-> PyStr(<<"A", "c", "m", "e">>)],
       [vendor |->
           PyDict([name |-> PyStr(<<"A", "c", "m", "e">>),
                   gstin |-> PyStr(<<"0", "9", "A", "A", "A", "C", "F", "5", "8", "6", "2",
                                     "R", "1", "Z", "N">>)])],
       [vendor |->
           PyDict([name |-> PyStr(<<"A", "c", "m", "e">>),
                   vendor_gstin |-> PyStr(<<>>),
                   gstin |-> PyStr(<<"0", "9", "A", "A", "A", "C", "F", "5", "8", "6", "2",
                                     "R", "1", "Z", "N">>)])] >>

\* invoice_id: missing or present.
InvoiceIdParts ==
    << NoFields, [invoice_id |-> PyStr(<<"I", "N", "V", "-", "1">>)] >>

\* The combinations <<tax identifier, vendor, invoice_id>> the runs are given.
PartyShapes ==
    << <<1, 1, 1>>, <<1, 2, 2>>, <<1, 3, 2>>, <<2, 2, 2>>, <<2, 1, 2>>,
       <<3, 2, 1>>, <<3, 3, 2>>, <<4, 2, 2>>, <<4, 3, 1>>, <<5, 2, 2>>,
       <<1, 4, 2>>, <<6, 2, 2>> >>

PartyPart(p) ==
    GstinParts[PartyShapes[p][1]] @@ VendorParts[PartyShapes[p][2]]
        @@ InvoiceIdParts[PartyShapes[p][3]]

BuildParsed(t, p, form, shape) ==
    TotalParts[t] @@ PartyPart(p) @@ LineItemsPart(form, shape)

-----------------------------------------------------------------------------
(* State *)

VARIABLES
    parsed_data,     \* detect_bill_fraud: the argument of the call
    pc,              \* detect_bill_fraud: "call", then "returned" or "raised"
    result,          \* detect_bill_fraud: what the call produced
    fraud_detector,  \* main.py line 30: the detector all handlers share
    calls,           \* the handlers' calls of fraud_detector.detect_fraud so far
    threads,         \* calls of fraud_detector.detect_fraud in progress
    db,              \* SQLiteConnection.py line 420: the database, or None
    files,           \* the documents upload_bill has written under BILLS_DIR
    uploads,         \* the calls of upload_bill so far, with their outcomes
    now,             \* the day of the latest request
    decisions,       \* the calls of approve_bill and reject_bill so far
    signals,         \* score_line_items and combine_signals: inputs and results
    gstin_check      \* an identifier and what the two format checkers say of it

vars == <<parsed_data, pc, result, fraud_detector, calls, threads, db, files, uploads, now, decisions, signals, gstin_check>>

NoResult == [report |-> NoReport, reasons |-> <<>>, progress |-> <<>>, api_key_set |-> FALSE]

\* The state of the parts a specification does not exercise.
IdleRun == parsed_data = NoFields /\ pc = "idle" /\ result = NoResult
IdleHandlers == calls = <<>>
IdleThreads == threads = <<>>
IdleUploads ==
    /\ db = [available |-> FALSE, bills |-> <<>>, budgets |-> {}]
    /\ files = {} /\ uploads = <<>> /\ now = 0
IdleServices ==
    decisions = <<>> /\ signals = [pc |-> "idle"] /\ gstin_check = [pc |-> "idle"]

Init ==
    /\ \E t \in 1..Len(TotalParts), p \in 1..Len(PartyShapes),
          form \in LineItemsForms, shape \in ItemShapes :
          /\ form # "list" => shape = <<>>
          /\ parsed_data = BuildParsed(t, p, form, shape)
    /\ pc = "call"
    /\ result = NoResult
    /\ fraud_detector = NewDetector
    /\ IdleHandlers /\ IdleThreads /\ IdleUploads /\ IdleServices

Finished(r, api_key_set) ==
    /\ pc' = IF r.raised THEN "raised" ELSE "returned"
    /\ result' = [report |-> r.report, reasons |-> ReasonsOf(r), progress |-> r.progress,
                  api_key_set |-> api_key_set]

\* detect_bill_fraud, lines 287-290: a new detector scores the input.
DetectBillFraud ==
    /\ pc = "call"
    /\ \E api_key_set \in BOOLEAN :
          Finished(detect_fraud(NewDetector, parsed_data, api_key_set), api_key_set)
    /\ UNCHANGED <<parsed_data, fraud_detector, calls, threads, db, files, uploads, now, decisions, signals, gstin_check>>

Next == DetectBillFraud

Spec == Init /\ [][Next]_vars

-----------------------------------------------------------------------------
(* The handlers of main.py share one detector (line 30).  Each handler is  *)
(* a coroutine that calls fraud_detector.detect_fraud without awaiting     *)
(* inside the call (lines 87, 259), so on the event loop the calls follow  *)
(* one another.                                                            *)

MaxCalls == 3

HandlerInputs ==
    << BuildParsed(2, 4, "list", <<1>>),
       BuildParsed(2, 2, "list", <<1>>),
       BuildParsed(1, 1, "list", <<2, 2, 2, 2>>),
       BuildParsed(2, 4, "null", <<>>),
       BuildParsed(2, 4, "absent", <<>>),
       BuildParsed(6, 6, "list", <<1, 3>>) >>

InitSeq ==
    /\ IdleRun /\ IdleThreads /\ IdleUploads /\ IdleServices
    /\ fraud_detector = NewDetector
    /\ calls = <<>>

Called(i, r) ==
    /\ fraud_detector' = r.self
    /\ calls' = Append(calls, [input |-> i, raised |-> r.raised, report |-> r.report,
                               returned_reasons |-> ReasonsOf(r)])

\* fraud_result = fraud_detector.detect_fraud(bill_data, parsed): the call is
\* recorded with its report and with the reasons the report showed when it
\* was returned.
HandlerCall ==
    /\ Len(calls) < MaxCalls
    /\ \E i \in 1..Len(HandlerInputs), api_key_set \in BOOLEAN :
          Called(i, detect_fraud(fraud_detector, HandlerInputs[i], api_key_set))
    /\ UNCHANGED <<parsed_data, pc, result, threads, db, files, uploads, now, decisions, signals, gstin_check>>

NextSeq == HandlerCall

SpecSeq == InitSeq /\ [][NextSeq]_vars

-----------------------------------------------------------------------------
(* Two callers inside detect_fraud on the shared detector at once (worker  *)
(* threads): a caller can be preempted between any two statements of       *)
(* lines 51-89.  Each caller keeps its locals; self is shared.             *)

Threads == {"t1", "t2"}

ThreadInputs ==
    << BuildParsed(2, 4, "list", <<1>>),
       BuildParsed(1, 1, "list", <<2, 2, 2, 2>>),
       BuildParsed(2, 2, "null", <<>>),
       BuildParsed(8, 8, "absent", <<>>) >>

IdleThread ==
    [pc |-> "idle", input |-> 0, validations |-> NoValidations, gstin_valid |-> FALSE,
     recommendation |-> "none", report |-> NoReport]

InitConc ==
    /\ IdleRun /\ IdleHandlers /\ IdleUploads /\ IdleServices
    /\ fraud_detector = NewDetector
    /\ threads = [t \in Threads |-> IdleThread]

Others == <<parsed_data, pc, result, calls, db, files, uploads, now, decisions, signals, gstin_check>>

\* Lines 51-52.
Enter(t) ==
    /\ threads[t].pc = "idle"
    /\ \E i \in 1..Len(ThreadInputs) :
          threads' = [threads EXCEPT ![t].pc = "validate", ![t].input = i]
    /\ fraud_detector' = ResetDetector(fraud_detector)
    /\ UNCHANGED Others

ThreadValidated(t, run) ==
    threads' = IF run.raised THEN [threads EXCEPT ![t].pc = "raised"]
               ELSE [threads EXCEPT ![t].pc = "check1",
                                    ![t].gstin_valid = run.validations.gstin_validation,
                                    ![t].validations = run.validations]

\* Lines 55-57: only the locals change.
Validate(t) ==
    /\ threads[t].pc = "validate"
    /\ \E api_key_set \in BOOLEAN :
          ThreadValidated(t, Validated(fraud_detector,
                                       _validate_invoice_math(ThreadInputs[threads[t].input]),
                                       _validate_gstin(ThreadInputs[threads[t].input],
                                                       api_key_set)))
    /\ UNCHANGED <<fraud_detector, Others>>

\* Lines 60-67.
Check1(t) ==
    /\ threads[t].pc = "check1"
    /\ fraud_detector' = CheckMath(fraud_detector, threads[t].validations)
    /\ threads' = [threads EXCEPT ![t].pc = "check2"]
    /\ UNCHANGED Others

\* Lines 70-72.
Check2(t) ==
    /\ threads[t].pc = "check2"
    /\ fraud_detector' = CheckGstin(fraud_detector, threads[t].gstin_valid)
    /\ threads' = [threads EXCEPT ![t].pc = "check3"]
    /\ UNCHANGED Others

\* Line 75.
Check3(t) ==
    /\ threads[t].pc = "check3"
    /\ fraud_detector' = _check_missing_info(fraud_detector, ThreadInputs[threads[t].input])
    /\ threads' = [threads EXCEPT ![t].pc = "check4"]
    /\ UNCHANGED Others

ThreadChecked4(t, a) ==
    /\ fraud_detector' = a.self
    /\ threads' = [threads EXCEPT ![t].pc = IF a.raised THEN "raised" ELSE "recommend"]

\* Line 78.
Check4(t) ==
    /\ threads[t].pc = "check4"
    /\ ThreadChecked4(t, _check_line_item_anomalies(fraud_detector,
                                                     ThreadInputs[threads[t].input]))
    /\ UNCHANGED Others

\* Line 81.
Recommend(t) ==
    /\ threads[t].pc = "recommend"
    /\ threads' = [threads EXCEPT
                      ![t].pc = "return",
                      ![t].recommendation = _get_recommendation(fraud_detector.fraud_score)]
    /\ UNCHANGED <<fraud_detector, Others>>

\* Lines 83-89.
Return(t) ==
    /\ threads[t].pc = "return"
    /\ threads' = [threads EXCEPT
                      ![t].pc = "returned",
                      ![t].report = MakeReport(fraud_detector, threads[t].recommendation,
                                               threads[t].validations)]
    /\ UNCHANGED <<fraud_detector, Others>>

NextConc ==
    \E t \in Threads :
        \/ Enter(t) \/ Validate(t) \/ Check1(t) \/ Check2(t) \/ Check3(t)
        \/ Check4(t) \/ Recommend(t) \/ Return(t)

SpecConc == InitConc /\ [][NextConc]_vars

-----------------------------------------------------------------------------
(* upload_bill, main.py lines 186-303, on the bills table of              *)
(* SQLiteConnection.py.  The database file outlives the service, so the    *)
(* table can hold rows when the service starts.  Amounts are in            *)
(* thousandths, time in days, bill ids are numbers (0 for None).           *)

MaxUploads == 2

\* main.py line 265.
DUPLICATE_PENALTY == 30

Projects == {"p1", "p2"}

\* Days between one request and the next.
Gaps == {0, 4}

\* CREATE TABLE bills, SQLiteConnection.py lines 50-64.
bills_columns ==
    {"bill_id", "tenant_id", "project_id", "vendor_name", "total_amount", "fraud_score",
     "status", "created_at", "updated_at", "fraud_reasons"}

\* The parameters of insert_bill besides self, SQLiteConnection.py lines 152-154.
insert_bill_parameters ==
    {"bill_id", "tenant_id", "project_id", "vendor_name", "total_amount", "fraud_score",
     "status"}

\* The keywords upload_bill calls insert_bill with, main.py lines 273-282.
upload_bill_keywords == insert_bill_parameters \cup {"file_hash"}

\* A row as INSERT INTO bills writes it, with the column defaults.
BillRow(bill_id, project_id, vendor_name, total_amount, fraud_score, created_at) ==
    [c \in bills_columns |->
        CASE c = "bill_id"       -> bill_id
          [] c = "tenant_id"     -> "t1"
          [] c = "project_id"    -> project_id
          [] c = "vendor_name"   -> vendor_name
          [] c = "total_amount"  -> total_amount
          [] c = "fraud_score"   -> fraud_score
          [] c = "status"        -> "uploaded"
          [] c = "created_at"    -> created_at
          [] c = "updated_at"    -> created_at
          [] c = "fraud_reasons" -> <<>>]

\* insert_bill called with the keywords and the row: a keyword that is not
\* a parameter is a TypeError; a repeated primary key is caught and answers
\* False.
insert_bill(bills, keywords, row) ==
    IF ~(keywords \subseteq insert_bill_parameters)
    THEN [raised |-> TRUE, success |-> FALSE, bills |-> bills]
    ELSE IF \E i \in 1..Len(bills) : bills[i]["bill_id"] = row["bill_id"]
    THEN [raised |-> FALSE, success |-> FALSE, bills |-> bills]
    ELSE [raised |-> FALSE, success |-> TRUE, bills |-> Append(bills, row)]

\* update_bill_fraud_score
update_bill_fraud_score(bills, bill_id, fraud_score, fraud_reasons) ==
    [i \in 1..Len(bills) |->
        IF bills[i]["bill_id"] = bill_id
        THEN [bills[i] EXCEPT !["fraud_score"] = fraud_score,
                              !["fraud_reasons"] = fraud_reasons]
        ELSE bills[i]]

RECURSIVE get_all_bills(_)
\* SELECT * FROM bills ORDER BY created_at DESC (rows of one day in the
\* order they were inserted).
get_all_bills(bills) ==
    IF bills = <<>> THEN <<>>
    ELSE LET newest ==
                 CHOOSE i \in 1..Len(bills) :
                     \A j \in 1..Len(bills) :
                         \/ bills[j]["created_at"] < bills[i]["created_at"]
                         \/ bills[j]["created_at"] = bills[i]["created_at"] /\ i <= j
         IN  <<bills[newest]>>
                 \o get_all_bills(SubSeq(bills, 1, newest - 1)
                                      \o SubSeq(bills, newest + 1, Len(bills)))

\* hashlib.md5(content).hexdigest(): one digest per document modelled.
md5(content) == <<"md5", content>>

\* HashMatches ignoring the digest.
HashMatchesAny(bill, file_hash) == TRUE

\* main.py line 212: bill.get('file_hash') == file_hash
HashMatches(bill, file_hash) == "file_hash" \in DOMAIN bill /\ bill["file_hash"] = file_hash

RECURSIVE FirstDuplicate(_, _, _)
\* main.py lines 207-216: the bill_id of the first matching row, 0 for None.
FirstDuplicate(existing_bills, file_hash, project) ==
    IF existing_bills = <<>> THEN 0
    ELSE IF /\ HashMatches(existing_bills[1], file_hash)
            /\ existing_bills[1]["project_id"] = project
    THEN existing_bills[1]["bill_id"]
    ELSE FirstDuplicate(Tail(existing_bills), file_hash, project)

\* The documents uploaded: their bytes and what analyze_invoice reads from
\* them.  A: vendor Acme, 1000, clean.  B: vendor Acme, 1001, clean.
\* C: nothing but four miscalculated items.  D: line_items null.
Documents ==
    << [content |-> "A", parsed |-> BuildParsed(2, 4, "list", <<1>>)],
       [content |-> "B", parsed |-> BuildParsed(3, 4, "list", <<1>>)],
       [content |-> "C", parsed |-> BuildParsed(1, 1, "list", <<2, 2, 2, 2>>)],
       [content |-> "D", parsed |-> BuildParsed(2, 4, "null", <<>>)] >>

\* main.py lines 226-229: the analysis, or the error mapping when it raises.
Analysed(doc, di_ok, bill_id) ==
    IF di_ok THEN Documents[doc].parsed
    ELSE [bill_id |-> PyStr(NatChars(bill_id)), error |-> PyStr(<<"e", "r", "r">>)]

Unknown == PyStr(<<"U", "n", "k", "n", "o", "w", "n">>)

\* main.py lines 238-240.
VendorNameOf(parsed) ==
    LET vendor_name == PyOr(PyOr(Get(parsed, "vendor"), Get(parsed, "supplier")), Unknown)
    IN  IF vendor_name.t = "dict"
        THEN PyOr(PyOr(Get(vendor_name.d, "name"), Get(vendor_name.d, "vendor_name")), Unknown)
        ELSE vendor_name

\* main.py lines 242-247: float(str(...).replace(",", "")), 0.0 on ValueError.
TotalAmountOf(parsed) ==
    LET value == PyOr(PyOr(Get(parsed, "total_amount"), Get(parsed, "InvoiceTotal")),
                      PyStr(<<"0">>))
    IN  CASE value.t = "num" -> value.v
          [] value.t = "str" ->
                IF ParseFloat(Without(value.s, {","})).ok
                THEN ParseFloat(Without(value.s, {","})).v
                ELSE 0
          [] OTHER -> 0

\* uuid.uuid4(): an id no row and no earlier upload has.
uuid4 == Len(db.bills) + Cardinality(files) + 1

\* main.py lines 194-216 and 226-247: the locals of an accepted upload
\* before it is scored.
Request(doc, project, at, parsed) ==
    [content |-> Documents[doc].content,
     project |-> project,
     at |-> at,
     bill_id |-> uuid4,
     file_hash |-> md5(Documents[doc].content),
     duplicate_bill_id |->
         IF db.available
         THEN FirstDuplicate(get_all_bills(db.bills), md5(Documents[doc].content), project)
         ELSE 0,
     vendor_name |-> VendorNameOf(parsed),
     total_amount |-> TotalAmountOf(parsed)]

\* main.py line 261: fraud_result.get("explanation", ""), a text as the list
\* of its parts.
Explanation(report) == IF "explanation" \in DOMAIN report THEN report.explanation ELSE <<>>

\* main.py lines 264-265.
AddDuplicatePenalty(fraud_score, duplicate_detected) ==
    IF duplicate_detected THEN fraud_score + DUPLICATE_PENALTY ELSE fraud_score

\* main.py lines 266-269.
AddDuplicateReason(fraud_reasons, duplicate_bill_id) ==
    IF duplicate_bill_id # 0
    THEN Append(fraud_reasons,
                Reason("DUPLICATE: Same file already uploaded as Bill", duplicate_bill_id))
    ELSE fraud_reasons

\* What upload_bill has when it leaves: how it left, the locals, and the
\* reasons detect_fraud reported.
Outcome(u, r, left) ==
    [left |-> left,
     content |-> u.content,
     project |-> u.project,
     at |-> u.at,
     bill_id |-> u.bill_id,
     duplicate_detected |-> u.duplicate_bill_id # 0,
     duplicate_of |-> u.duplicate_bill_id,
     vendor_name |-> u.vendor_name,
     total_amount |-> u.total_amount,
     scored |-> ~r.raised,
     detect_score |-> r.report.fraud_score,
     detect_reasons |-> ReasonsOf(r),
     fraud_score |-> AddDuplicatePenalty(r.report.fraud_score, u.duplicate_bill_id # 0),
     fraud_reasons |-> AddDuplicateReason(Explanation(r.report), u.duplicate_bill_id)]

\* main.py lines 271-291 with the database: insert_bill, then
\* update_bill_fraud_score when it succeeded.
Stored(o, ins) ==
    /\ db' = [db EXCEPT !.bills =
                 IF ins.success
                 THEN update_bill_fraud_score(ins.bills, o.bill_id, o.fraud_score,
                                              o.fraud_reasons)
                 ELSE ins.bills]
    /\ uploads' = Append(uploads, [o EXCEPT !.left = IF ins.raised THEN "TypeError in insert_bill"
                                                     ELSE "returned"])

\* main.py lines 259-303.
Scored(o) ==
    IF ~o.scored
    THEN db' = db /\ uploads' = Append(uploads, [o EXCEPT !.left = "raised in detect_fraud"])
    ELSE IF db.available
    THEN Stored(o, insert_bill(db.bills, upload_bill_keywords,
                               BillRow(o.bill_id, o.project, o.vendor_name, o.total_amount,
                                       o.fraud_score, o.at)))
    ELSE db' = db /\ uploads' = Append(uploads, [o EXCEPT !.left = "returned"])

\* main.py lines 194-303: a PDF.
Accepted(u, r) ==
    /\ now' = u.at
    /\ files' = files \cup {[bill_id |-> u.bill_id, content |-> u.content,
                             project |-> u.project]}
    /\ fraud_detector' = r.self
    /\ Scored(Outcome(u, r, "scoring"))

\* main.py lines 191-192: HTTPException 400, nothing else happens.
Rejected(at) ==
    /\ now' = at
    /\ uploads' = Append(uploads, [left |-> "400", at |-> at])
    /\ UNCHANGED <<db, files, fraud_detector>>

\* The rows the table can hold when the service starts.
StoredBills ==
    << BillRow(1, "p1", PyStr(<<"A", "c", "m", "e">>), Amount(1000, 0), 0, 0),
       BillRow(2, "p2", PyStr(<<"A", "c", "m", "e">>), Amount(1000, 0), 0, 0) >>

InitUpload ==
    /\ IdleRun /\ IdleHandlers /\ IdleThreads /\ IdleServices
    /\ fraud_detector = NewDetector
    /\ \E n \in 0..Len(StoredBills), available \in BOOLEAN :
          /\ ~available => n = 0
          /\ db = [available |-> available, bills |-> SubSeq(StoredBills, 1, n),
                   budgets |-> {}]
    /\ files = {}
    /\ uploads = <<>>
    /\ now = 0

\* upload_bill
UploadBill ==
    /\ Len(uploads) < MaxUploads
    /\ \E is_pdf \in BOOLEAN, doc \in 1..Len(Documents), project \in Projects,
          gap \in Gaps, di_ok \in BOOLEAN, api_key_set \in BOOLEAN :
          IF ~is_pdf
          THEN Rejected(now + gap)
          ELSE Accepted(Request(doc, project, now + gap, Analysed(doc, di_ok, uuid4)),
                        detect_fraud(fraud_detector, Analysed(doc, di_ok, uuid4),
                                     api_key_set))
    /\ UNCHANGED <<parsed_data, pc, result, calls, threads, decisions, signals, gstin_check>>

NextUpload == UploadBill

SpecUpload == InitUpload /\ [][NextUpload]_vars

-----------------------------------------------------------------------------
(* approve_bill, reject_bill and list_projects on the bills and budgets     *)
(* tables.  db.budgets is the set of budget rows [project_id, total_amount]. *)

MaxDecisions == 3

\* SQLiteDatabaseConnection.get_bill: whether the SELECT finds a row.
HasBill(bills, bill_id) == \E b \in 1..Len(bills) : bills[b]["bill_id"] = bill_id

\* SQLiteDatabaseConnection.update_bill_status:
\* UPDATE bills SET status = ? WHERE bill_id = ?
update_bill_status(bills, bill_id, status) ==
    [b \in 1..Len(bills) |->
        IF bills[b]["bill_id"] = bill_id
        THEN [bills[b] EXCEPT !["status"] = status]
        ELSE bills[b]]

\* SpentOn that sums the bills of the project in every status.
RECURSIVE SpentOnAnyStatus(_, _)
SpentOnAnyStatus(bills, project_id) ==
    IF bills = <<>> THEN 0
    ELSE (IF bills[1]["project_id"] = project_id THEN bills[1]["total_amount"] ELSE 0)
            + SpentOnAnyStatus(Tail(bills), project_id)

\* main.py line 157, over the bills joined to the project:
\* COALESCE(SUM(CASE WHEN bills.status = 'approved' THEN bills.total_amount ELSE 0 END), 0)
RECURSIVE SpentOn(_, _)
SpentOn(bills, project_id) ==
    IF bills = <<>> THEN 0
    ELSE (IF bills[1]["project_id"] = project_id /\ bills[1]["status"] = "approved"
          THEN bills[1]["total_amount"] ELSE 0)
            + SpentOn(Tail(bills), project_id)

\* list_projects, lines 152-176: one entry for each row of budgets, the bills
\* joined by project_id.
list_projects(budgets, bills) ==
    [id \in {budget.project_id : budget \in budgets} |->
        [id |-> id,
         total_budget |-> (CHOOSE budget \in budgets : budget.project_id = id).total_amount,
         spent |-> SpentOn(bills, id),
         total_bills |-> Cardinality({b \in 1..Len(bills) : bills[b]["project_id"] = id}),
         pending_bills |->
             Cardinality({b \in 1..Len(bills) :
                             /\ bills[b]["project_id"] = id
                             /\ bills[b]["status"] \in {"uploaded", "analysed"}})]]

\* The rows the bills table can hold when the service starts: those of
\* StoredBills and one more of project p1 with another amount.
LedgerBills ==
    StoredBills \o << BillRow(3, "p1", PyStr(<<"B", "o", "l", "t">>), Amount(250, 0), 0, 0) >>

\* The database as the service finds it: the rows of earlier runs, budgets
\* for some of the projects; the bills are in the status INSERT gives them.
InitBills ==
    /\ IdleRun /\ IdleHandlers /\ IdleThreads
    /\ signals = [pc |-> "idle"] /\ gstin_check = [pc |-> "idle"]
    /\ fraud_detector = NewDetector
    /\ \E n \in 0..Len(LedgerBills), available \in BOOLEAN, budgeted \in SUBSET Projects :
          /\ ~available => n = 0 /\ budgeted = {}
          /\ db = [available |-> available, bills |-> SubSeq(LedgerBills, 1, n),
                   budgets |-> {[project_id |-> p, total_amount |-> Amount(5000, 0)] :
                                   p \in budgeted}]
    /\ files = {}
    /\ uploads = <<>>
    /\ now = 0
    /\ decisions = <<>>

\* approve_bill and reject_bill, lines 381-404 and 409-430: 500 without the
\* database, 404 when get_bill finds no row, else the status is written
\* whatever it was.
Decided(handler, bill_id, status) ==
    /\ db' = IF db.available /\ HasBill(db.bills, bill_id)
             THEN [db EXCEPT !.bills = update_bill_status(db.bills, bill_id, status)]
             ELSE db
    /\ decisions' = Append(decisions,
                           [handler |-> handler,
                            bill_id |-> bill_id,
                            code |-> IF ~db.available THEN 500
                                     ELSE IF ~HasBill(db.bills, bill_id) THEN 404
                                     ELSE 200,
                            before |-> db.bills,
                            after |-> db'.bills])
    /\ UNCHANGED <<parsed_data, pc, result, fraud_detector, calls, threads, files, uploads,
                   now, signals, gstin_check>>

\* approve_bill; the bill_id is that of a row that can be stored, or one
\* no row has.
ApproveBill ==
    /\ Len(decisions) < MaxDecisions
    /\ \E bill_id \in 1..(Len(LedgerBills) + 1) : Decided("approve_bill", bill_id, "approved")

\* reject_bill
RejectBill ==
    /\ Len(decisions) < MaxDecisions
    /\ \E bill_id \in 1..(Len(LedgerBills) + 1) : Decided("reject_bill", bill_id, "rejected")

NextBills == ApproveBill \/ RejectBill

SpecBills == InitBills /\ [][NextBills]_vars

-----------------------------------------------------------------------------
(* The two tax-identifier format checkers: validation.validate_gstin and    *)
(* FraudDetector._validate_gstin, on the same identifier.                   *)

\* validation.validate_gstin, lines 86-111 (the notes left out); the pattern
\* of line 96 is ^\d{2}[A-Z]{5}\d{4}[A-Z][A-Z0-9]Z[A-Z0-9]$.
validate_gstin(gstin) ==
    LET gst == Upper(Strip(gstin))
        valid_format ==
            /\ Len(gst) = 15
            /\ AllIn(SubSeq(gst, 1, 2), Digits)
            /\ AllIn(SubSeq(gst, 3, 7), UpperLetters)
            /\ AllIn(SubSeq(gst, 8, 11), Digits)
            /\ gst[12] \in UpperLetters
            /\ gst[13] \in UpperLetters \cup Digits
            /\ gst[14] = "Z"
            /\ gst[15] \in UpperLetters \cup Digits
    IN  [gstin |-> gst,
         valid_format |-> valid_format,
         state_code_ok |-> valid_format
                             /\ 10 * DigitVal(gst[1]) + DigitVal(gst[2]) \in 1..37]

\* Identifiers of 15 characters over digits and uppercase letters, each
\* segment well-formed or not.
Identifiers ==
    {state \o pan_letters \o pan_digits \o pan_last \o entity \o z \o checksum :
        state \in {<<"2", "7">>, <<"0", "0">>, <<"9", "9">>, <<"2", "A">>},
        pan_letters \in {<<"A", "B", "C", "D", "E">>, <<"A", "B", "C", "D", "1">>},
        pan_digits \in {<<"1", "2", "3", "4">>, <<"1", "2", "3", "A">>},
        pan_last \in {<<"F">>, <<"5">>},
        entity \in {<<"1">>, <<"A">>, <<"Z">>},
        z \in {<<"Z">>, <<"Y">>, <<"1">>},
        checksum \in {<<"5">>, <<"X">>}}

InitGstin ==
    /\ IdleRun /\ IdleHandlers /\ IdleThreads /\ IdleUploads
    /\ decisions = <<>> /\ signals = [pc |-> "idle"]
    /\ fraud_detector = NewDetector
    /\ \E gstin \in Identifiers :
          gstin_check = [pc |-> "check", gstin |-> gstin,
                         validated |-> FALSE,
                         validation |-> [gstin |-> <<>>, valid_format |-> FALSE,
                                         state_code_ok |-> FALSE],
                         detected |-> FALSE,
                         accepted |-> FALSE]

\* validation.validate_gstin(gstin)
ValidateGstin ==
    /\ gstin_check.pc = "check"
    /\ ~gstin_check.validated
    /\ gstin_check' = [gstin_check EXCEPT !.validated = TRUE,
                                          !.validation = validate_gstin(gstin_check.gstin)]
    /\ UNCHANGED <<parsed_data, pc, result, fraud_detector, calls, threads, db, files,
                   uploads, now, decisions, signals>>

\* FraudDetector._validate_gstin({"vendor_gstin": gstin})
DetectorValidateGstin ==
    /\ gstin_check.pc = "check"
    /\ ~gstin_check.detected
    /\ \E api_key_set \in BOOLEAN :
          gstin_check' =
              [gstin_check EXCEPT
                  !.detected = TRUE,
                  !.accepted = _validate_gstin([vendor_gstin |-> PyStr(gstin_check.gstin)],
                                               api_key_set)]
    /\ UNCHANGED <<parsed_data, pc, result, fraud_detector, calls, threads, db, files,
                   uploads, now, decisions, signals>>

NextGstin == ValidateGstin \/ DetectorValidateGstin

SpecGstin == InitGstin /\ [][NextGstin]_vars

-----------------------------------------------------------------------------
(* score_line_items (src/anomaly/score.py) and combine_signals              *)
(* (src/llm/reasoner.py).  Risks and anomalies are in thousandths, the      *)
(* fraud_score of combine_signals, a sum of products, in millionths.        *)

MaxRisk == 20

\* reasoner.py line 12: vendor_risk * 0.6 + mean_anom * 0.9
VENDOR_RISK_WEIGHT == 6 * (Unit \div 10)
ANOMALY_WEIGHT == 9 * (Unit \div 10)

model_not_trained ==
    <<"m", "o", "d", "e", "l", "-", "n", "o", "t", "-", "t", "r", "a", "i", "n", "e", "d">>

\* What model.decision_function can give for n rows: a score for each row,
\* or <<>> when it raises (as it does for no rows).
Preds(n) == [1..n -> {0, 1, 2}] \cup {<<>>}

RECURSIVE SeqSum(_)
SeqSum(seq) == IF seq = <<>> THEN 0 ELSE seq[1] + SeqSum(Tail(seq))

\* score.py line 19: (preds.max() - preds) / (preds.max() - preds.min() + 1e-9),
\* to the thousandth.
Normalized(preds) ==
    LET values == {preds[i] : i \in 1..Len(preds)}
        max == CHOOSE x \in values : \A y \in values : y <= x
        min == CHOOSE x \in values : \A y \in values : y >= x
    IN  [i \in 1..Len(preds) |->
            IF max = min THEN 0 ELSE ((max - preds[i]) * Unit) \div (max - min)]

\* score_line_items, lines 7-20; model_exists is MODEL_PATH.exists() and
\* preds what the loaded model answers.
score_line_items(model_exists, line_items, preds) ==
    IF ~model_exists
    THEN [raised |-> FALSE,
          value |-> [anomaly_score |-> PyNum(0),
                     reasons |-> PyList(<<PyStr(model_not_trained)>>)]]
    ELSE IF preds = <<>>
    THEN [raised |-> TRUE, value |-> NoFields]
    ELSE [raised |-> FALSE,
          value |-> [anomaly_scores |->
                         PyList([i \in 1..Len(preds) |-> PyNum(Normalized(preds)[i])]),
                     mean_anomaly |->
                         PyNum(SeqSum(Normalized(preds)) \div Len(preds))]]

\* reasoner.py line 10: mcp_outputs.get("vendor", {}).get("vendor_risk_score", 0.0)
VendorRiskOf(mcp_outputs) ==
    IF "vendor" \notin DOMAIN mcp_outputs THEN 0
    ELSE IF "vendor_risk_score" \notin DOMAIN mcp_outputs["vendor"].d THEN 0
    ELSE mcp_outputs["vendor"].d["vendor_risk_score"].v

\* reasoner.py line 11: anomaly.get("mean_anomaly", 0.0)
MeanAnomalyOf(anomaly) ==
    IF "mean_anomaly" \in DOMAIN anomaly THEN anomaly["mean_anomaly"].v ELSE 0

\* combine_signals without min(1.0, ...).
CombineSignalsUncapped(parsed, mcp_outputs, anomaly) ==
    [fraud_score |-> VendorRiskOf(mcp_outputs) * VENDOR_RISK_WEIGHT
                        + MeanAnomalyOf(anomaly) * ANOMALY_WEIGHT,
     explanation |-> [vendor_risk |-> Round2(VendorRiskOf(mcp_outputs)),
                      anomaly_mean |-> Round2(MeanAnomalyOf(anomaly))]]

\* combine_signals, lines 8-17; the explanation is kept as the numbers it
\* prints to two decimals.
combine_signals(parsed, mcp_outputs, anomaly) ==
    [fraud_score |-> Min(Unit * Unit,
                         VendorRiskOf(mcp_outputs) * VENDOR_RISK_WEIGHT
                             + MeanAnomalyOf(anomaly) * ANOMALY_WEIGHT),
     explanation |-> [vendor_risk |-> Round2(VendorRiskOf(mcp_outputs)),
                      anomaly_mean |-> Round2(MeanAnomalyOf(anomaly))]]

\* mcp_outputs: without a vendor entry, with one that has no score, and with
\* a vendor_risk_score, in tenths from 0.
McpOutputs ==
    {NoFields, [vendor |-> PyDict(NoFields)]}
        \cup {[vendor |-> PyDict([vendor_risk_score |-> PyNum(k * (Unit \div 10))])] :
                 k \in 0..MaxRisk}

\* The line items scored: none, one or two.
ScoredLineItems == UNION {[1..n -> {ItemKinds[1]}] : n \in 0..2}

InitSignals ==
    /\ IdleRun /\ IdleHandlers /\ IdleThreads /\ IdleUploads
    /\ decisions = <<>> /\ gstin_check = [pc |-> "idle"]
    /\ fraud_detector = NewDetector
    /\ \E model_exists \in BOOLEAN, line_items \in ScoredLineItems,
          mcp_outputs \in McpOutputs :
          signals = [pc |-> "call",
                     model_exists |-> model_exists,
                     line_items |-> line_items,
                     mcp_outputs |-> mcp_outputs,
                     anomaly |-> NoFields,
                     combined |-> NoFields]

\* score_line_items(line_items)
ScoreLineItems ==
    /\ signals.pc = "call"
    /\ \E preds \in Preds(Len(signals.line_items)) :
          LET scored == score_line_items(signals.model_exists, signals.line_items, preds)
          IN  signals' = [signals EXCEPT !.pc = IF scored.raised THEN "raised" ELSE "scored",
                                         !.anomaly = scored.value]
    /\ UNCHANGED <<parsed_data, pc, result, fraud_detector, calls, threads, db, files,
                   uploads, now, decisions, gstin_check>>

\* combine_signals(parsed, mcp_outputs, anomaly) on the result of score_line_items
CombineSignals ==
    /\ signals.pc = "scored"
    /\ signals' = [signals EXCEPT
                      !.pc = "combined",
                      !.combined = combine_signals(NoFields, signals.mcp_outputs,
                                                   signals.anomaly)]
    /\ UNCHANGED <<parsed_data, pc, result, fraud_detector, calls, threads, db, files,
                   uploads, now, decisions, gstin_check>>

NextSignals == ScoreLineItems \/ CombineSignals

SpecSignals == InitSignals /\ [][NextSignals]_vars

-----------------------------------------------------------------------------
(* Properties *)

\* The documented range of fraud_score (docstring of detect_fraud).
MAX_SCORE == 100

Returned == pc = "returned"

Report == result.report

Severity(recommendation) ==
    CASE recommendation = "approve" -> 0
      [] recommendation = "review"  -> 1
      [] recommendation = "reject"  -> 2

HasReason(reasons, kind) == \E i \in 1..Len(reasons) : reasons[i].k = kind

\* C1: the fraud_score of every returned report is within [0, 100], whatever
\* the line items, the missing fields and the tax identifier.
C1_ScoreInRange ==
    Returned => Report.fraud_score >= 0 /\ Report.fraud_score <= MAX_SCORE

\* A report for MaxItems miscalculated items, no tax identifier and all three
\* critical fields missing.
C1_Witness ==
    /\ Returned
    /\ Len(LineItemsOf(parsed_data).items) = MaxItems
    /\ HasReason(result.reasons, "line item(s) with calculation errors")
    /\ HasReason(result.reasons, "Invalid or missing GSTIN number")
    /\ HasReason(result.reasons, "Invoice total mismatch")
    /\ \E i \in 1..Len(result.reasons) :
          result.reasons[i] = Reason("critical field(s) missing from invoice", 3)

\* The mapping the claim states.
ClaimedTier(score) ==
    IF score < 15 THEN "approve" ELSE IF score < 40 THEN "review" ELSE "reject"

\* C2: the recommendation is a function of fraud_score alone -- approve below
\* 15, review from 15 to below 40, reject from 40 -- and a higher score never
\* gives a less severe tier.
C2_RecommendationByScore ==
    /\ Returned => Report.recommendation = ClaimedTier(Report.fraud_score)
    /\ \A score \in 0..(MAX_SCORE - 1) :
          Severity(_get_recommendation(score)) <= Severity(_get_recommendation(score + 1))

\* A report whose score is exactly the first threshold.
C2_Witness ==
    Returned /\ Report.fraud_score = 15 /\ Report.recommendation = "review"

\* C3: is_suspicious is true exactly when fraud_score exceeds the threshold at
\* which the recommendation leaves approve.
C3_SuspiciousIffAboveReview ==
    Returned => (Report.is_suspicious <=> Report.fraud_score > REVIEW_THRESHOLD)

\* The progress before check i of a run.
Before(progress, i) == IF i = 1 THEN [score |-> 0, reasons |-> 0] ELSE progress[i - 1]

\* C4: reasons is non-empty whenever fraud_score > 0, and every check that
\* adds to the score appends a reason in the same run.
C4_ReasonsWhenScored ==
    /\ Returned /\ Report.fraud_score > 0 => result.reasons # <<>>
    /\ \A i \in 1..Len(result.progress) :
          result.progress[i].score > Before(result.progress, i).score
              => result.progress[i].reasons > Before(result.progress, i).reasons

\* A report to which each of the four checks has added.
C4_Witness ==
    /\ Returned
    /\ Len(result.reasons) = 4
    /\ \A i \in 1..4 : result.progress[i].score > Before(result.progress, i).score

\* What a run on the input gives on a detector of its own.
Alone(data) == detect_fraud(NewDetector, data, FALSE)

SameAsAlone(report, reasons, alone) ==
    /\ ~alone.raised
    /\ report.fraud_score = alone.report.fraud_score
    /\ report.recommendation = alone.report.recommendation
    /\ report.is_suspicious = alone.report.is_suspicious
    /\ reasons = ReasonsOf(alone)

\* C5: two runs on the shared detector that interleave between their checks
\* each return the score, reasons and recommendation they return when run
\* alone.
C5_RunsIsolated ==
    \A t \in DOMAIN threads :
        threads[t].pc = "returned"
            => SameAsAlone(threads[t].report,
                           fraud_detector.lists[threads[t].report.reasons],
                           Alone(ThreadInputs[threads[t].input]))

\* C6: a scoring run never raises; it always completes with a report.
C6_NeverRaises == pc # "raised"

\* The report of call a with its reasons as they read now.
ShownReport(a) ==
    [calls[a].report EXCEPT !.reasons = fraud_detector.lists[calls[a].report.reasons]]

\* C7: two calls in sequence on the same detector with the same input return
\* identical reports (reasons in the same order), and a returned report is
\* not changed by any later call.
C7_Idempotent ==
    /\ \A a, b \in 1..Len(calls) :
          calls[a].input = calls[b].input
              => /\ calls[a].raised = calls[b].raised
                 /\ ~calls[a].raised => ShownReport(a) = ShownReport(b)
    /\ \A a \in 1..Len(calls) :
          ~calls[a].raised
              => fraud_detector.lists[calls[a].report.reasons] = calls[a].returned_reasons

\* The same input scored twice, then a different one; all with reasons.
C7_Witness ==
    /\ Len(calls) >= 3
    /\ calls[1].input = calls[2].input
    /\ calls[3].input # calls[1].input
    /\ ~calls[1].raised /\ ~calls[3].raised
    /\ calls[1].returned_reasons # <<>>
    /\ calls[3].returned_reasons # <<>>
    /\ calls[3].returned_reasons # calls[1].returned_reasons

\* d = |invoice_total - sum_of_line_totals| of the report.
Discrepancy == Abs(Report.validations.invoice_total - Report.validations.sum_of_line_totals)

\* Score and reasons the invoice-total check (check 1) added.
MathAdded == result.progress[1]

\* C8: d > 100 adds exactly 40 and a mismatch reason, 10 < d <= 100 adds
\* exactly 20 and a minor-mismatch reason, d <= 10 adds nothing; an invoice
\* with d > 100 is recommended at least review.
C8_TieredPenalty ==
    Returned =>
        /\ Discrepancy > 100 * Unit
              => /\ MathAdded = [score |-> 40, reasons |-> 1]
                 /\ result.reasons[1] = Reason("Invoice total mismatch", Round2(Discrepancy))
                 /\ Severity(Report.recommendation) >= Severity("review")
        /\ Discrepancy > 10 * Unit /\ Discrepancy <= 100 * Unit
              => /\ MathAdded = [score |-> 20, reasons |-> 1]
                 /\ result.reasons[1] =
                        Reason("Minor invoice total mismatch", Round2(Discrepancy))
        /\ Discrepancy <= 10 * Unit => MathAdded = [score |-> 0, reasons |-> 0]

\* A discrepancy of exactly 100, penalised as minor.
C8_Witness ==
    /\ Returned
    /\ Discrepancy = 100 * Unit
    /\ MathAdded = [score |-> 20, reasons |-> 1]

\* C9: sum_ok is true exactly when |invoice_total - sum_of_line_totals| <= 1.0,
\* and the difference field is that absolute discrepancy.
C9_SumOkTolerance ==
    Returned =>
        /\ Report.validations.sum_ok <=> Discrepancy <= 1 * Unit
        /\ Report.validations.difference = Discrepancy

\* A discrepancy of exactly 1.0 with sum_ok true.
C9_Witness ==
    Returned /\ Discrepancy = 1 * Unit /\ Report.validations.sum_ok

\* Quantity and rate of a line item, under the aliases the source reads.
ItemQty(item) == _extract_number(PyOr(Get(item.d, "qty"), Get(item.d, "quantity")))

ItemRate(item) ==
    _extract_number(PyOr(PyOr(Get(item.d, "rate"), Get(item.d, "unit_price")),
                         Get(item.d, "price")))

\* Every line item has qty * rate = total exactly, there is at least one, and
\* the line totals sum exactly to the declared invoice total.
ConsistentInvoice(data) ==
    /\ LineItemsOf(data).t = "list"
    /\ Len(LineItemsOf(data).items) >= 1
    /\ \A i \in 1..Len(LineItemsOf(data).items) :
          /\ HasGet(LineItemsOf(data).items[i])
          /\ ItemQty(LineItemsOf(data).items[i]) * ItemRate(LineItemsOf(data).items[i])
                = SumItemTotal(LineItemsOf(data).items[i]) * Unit
    /\ SumOfLineTotals(LineItemsOf(data).items) = InvoiceTotalOf(data)

\* C10: a consistent invoice gets sum_ok = true, nothing added by the math
\* check, and neither a total-mismatch nor a calculation-error reason.
C10_ConsistentInvoiceClean ==
    Returned /\ ConsistentInvoice(parsed_data) =>
        /\ Report.validations.sum_ok
        /\ MathAdded.score = 0
        /\ ~HasReason(result.reasons, "Invoice total mismatch")
        /\ ~HasReason(result.reasons, "Minor invoice total mismatch")
        /\ ~HasReason(result.reasons, "line item(s) with calculation errors")

\* Whether the line item carries a value under one of the keys.
HasValue(item, keys) == \E k \in keys : k \in DOMAIN item.d /\ item.d[k].t # "none"

\* Quantity, rate and total are all given on the item, under any alias.
AllThreePresent(item) ==
    /\ HasValue(item, {"qty", "quantity"})
    /\ HasValue(item, {"rate", "unit_price", "price"})
    /\ HasValue(item, {"total", "amount", "Amount", "TotalPrice"})

\* The number the calculation-error reason carries, 0 without such a reason.
CalcErrorCount(reasons) ==
    IF HasReason(reasons, "line item(s) with calculation errors")
    THEN (CHOOSE r \in {reasons[i] : i \in 1..Len(reasons)} :
              r.k = "line item(s) with calculation errors").n
    ELSE 0

\* The line items of the scored input.
Items == LineItemsOf(parsed_data).items

\* C11: a line item on which quantity, rate or total is missing is excluded
\* from the per-item check: the calculation errors counted are errors of
\* items that carry all three values.
C11_MissingValueExcluded ==
    Returned /\ LineItemsOf(parsed_data).t = "list" =>
        CalcErrorCount(result.reasons) =
            Cardinality({i \in 1..Len(Items) :
                            AllThreePresent(Items[i]) /\ IsCalculationError(Items[i])})

\* The line total as the per-item check reads it.
ItemTotal(item) == _extract_number(PyOr(Get(item.d, "total"), Get(item.d, "amount")))

\* |round(qty * rate, 2) - total| > 0.5
Mismatched(item) ==
    Abs(Round2Product(ItemQty(item), ItemRate(item)) - Round2(ItemTotal(item))) * 2 > Unit

MismatchedCount == Cardinality({i \in 1..Len(Items) : Mismatched(Items[i])})

\* Score and number of reasons the line-item check (check 4) added.
LineItemAdded ==
    [score |-> result.progress[4].score - result.progress[3].score,
     reasons |-> result.progress[4].reasons - result.progress[3].reasons]

C13_NoLineItemsFinding ==
    Returned /\ LineItemsOf(parsed_data) = PyList(<<>>) =>
        /\ LineItemAdded = [score |-> 10, reasons |-> 1]
        /\ result.reasons[Len(result.reasons)] = Reason("No line items found in invoice", 0)
        /\ ~HasReason(result.reasons, "line item(s) with calculation errors")

\* An invoice whose line_items is the empty list, scored with that finding.
C13_Witness ==
    /\ Returned
    /\ "line_items" \in DOMAIN parsed_data
    /\ parsed_data["line_items"] = PyList(<<>>)
    /\ HasReason(result.reasons, "No line items found in invoice")

\* The tax identifier the validation took from the scored input.
Candidate == FindGstin(parsed_data)

\* Uppercased, characters outside A-Z and 0-9 removed.
Normalised(chars) == Filter(Upper(chars), UpperLetters \cup Digits)

\* Score and number of reasons the tax-identifier check (check 2) added.
GstinAdded ==
    [score |-> result.progress[2].score - result.progress[1].score,
     reasons |-> result.progress[2].reasons - result.progress[1].reasons]

GstinReasonCount ==
    Cardinality({i \in 1..Len(result.reasons) :
                    result.reasons[i].k = "Invalid or missing GSTIN number"})

\* C14: an identifier whose normalised form does not have exactly 15
\* characters, or a missing or empty one, is invalid: gstin_validation is
\* false, exactly 15 is added and the reason is appended once.
C14_WrongLengthInvalid ==
    Returned /\ Len(Normalised(Candidate)) # 15 =>
        /\ ~Report.validations.gstin_validation
        /\ GstinAdded = [score |-> 15, reasons |-> 1]
        /\ GstinReasonCount = 1

\* An identifier of 14 characters, penalised.
C14_Witness ==
    /\ Returned
    /\ Len(Normalised(Candidate)) = 14
    /\ GstinAdded = [score |-> 15, reasons |-> 1]

RECURSIVE FirstNonEmpty(_, _)
\* The value of the first non-empty alias of the mapping, from position i on.
FirstNonEmpty(mapping, i) ==
    IF i > Len(possible_fields) THEN <<>>
    ELSE IF Truthy(Get(mapping, possible_fields[i]))
    THEN Strip(Str(mapping[possible_fields[i]]))
    ELSE FirstNonEmpty(mapping, i + 1)

\* The identifier by the stated rule: the first non-empty top-level alias,
\* else the first non-empty alias of the vendor mapping.
ClaimedIdentifier(data) ==
    IF FirstNonEmpty(data, 1) # <<>> THEN FirstNonEmpty(data, 1)
    ELSE IF Get(data, "vendor").t = "dict" THEN FirstNonEmpty(Get(data, "vendor").d, 1)
    ELSE <<>>

\* C15: the validation result depends only on the first non-empty alias in
\* the fixed order, at the top level and, when no top-level alias is
\* non-empty, in the vendor mapping by the same first-non-empty rule.
C15_FirstNonEmptyAlias ==
    Returned =>
        (Report.validations.gstin_validation
            <=> /\ ClaimedIdentifier(parsed_data) # <<>>
                /\ GstinFormatOk(ClaimedIdentifier(parsed_data)))

\* C16: verification fails open: gstin_validation equals the outcome of the
\* format check alone, whether or not the verification API key is set and
\* whether or not the identifier is in the known list.
C16_FailOpen ==
    Returned =>
        (Report.validations.gstin_validation
            <=> Candidate # <<>> /\ GstinFormatOk(Candidate))

\* A well-formed identifier outside the known list, accepted with the key set.
C16_Witness ==
    /\ Returned
    /\ result.api_key_set
    /\ Report.validations.gstin_validation
    /\ Normalised(Candidate) \notin valid_test_gstins

\* Upload i was a PDF: upload_bill went past the file-type check.
WasAccepted(i) == uploads[i].left # "400"

\* Upload i was accepted with the same bytes as upload j.
SameBytes(i, j) == WasAccepted(i) /\ uploads[i].content = uploads[j].content

\* An earlier upload of the bytes of upload j to the project of upload j.
EarlierSame(j) ==
    {i \in 1..(j - 1) : SameBytes(i, j) /\ uploads[i].project = uploads[j].project}

\* C17: after a document has been uploaded to a project, an upload of the
\* same bytes to the same project is marked duplicate_detected, gets 30 added
\* to its score and a reason naming the original bill's id; the same bytes
\* uploaded only to a different project are not marked.
C17_ExactDuplicate ==
    \A j \in 1..Len(uploads) :
        WasAccepted(j) =>
            /\ EarlierSame(j) # {} =>
                  /\ uploads[j].duplicate_detected
                  /\ \E i \in EarlierSame(j) :
                        /\ uploads[j].duplicate_of = uploads[i].bill_id
                        /\ Reason("DUPLICATE: Same file already uploaded as Bill",
                                  uploads[i].bill_id)
                               \in {uploads[j].fraud_reasons[k] :
                                       k \in 1..Len(uploads[j].fraud_reasons)}
                  /\ uploads[j].scored =>
                        uploads[j].fraud_score = uploads[j].detect_score + 30
            /\ EarlierSame(j) = {} /\ (\E i \in 1..(j - 1) : SameBytes(i, j))
                  => ~uploads[j].duplicate_detected

\* The stored bill is of the vendor and project of upload o, was created
\* within the 7 days before it, and its amount is within 5% of o's.
NearDuplicate(o, bill) ==
    /\ bill["vendor_name"] = o.vendor_name
    /\ bill["project_id"] = o.project
    /\ bill["bill_id"] # o.bill_id
    /\ bill["created_at"] <= o.at
    /\ o.at - bill["created_at"] <= 7
    /\ Abs(bill["total_amount"] - o.total_amount) * 100 <= 5 * o.total_amount

\* C18: when a bill is scored and a stored bill of the same vendor and
\* project was submitted within the previous 7 days with an amount within 5%,
\* the duplicate signal adds at least 25 to the bill's score, whatever the
\* documents' bytes.
C18_NearDuplicateByAmount ==
    \A j \in 1..Len(uploads) :
        /\ WasAccepted(j)
        /\ uploads[j].scored
        /\ \E b \in 1..Len(db.bills) : NearDuplicate(uploads[j], db.bills[b])
        => uploads[j].fraud_score >= uploads[j].detect_score + 25

\* C19: the fraud_score upload_bill returns, and the one it stores on the
\* bill, is within [0, 100].
C19_UploadScoreInRange ==
    /\ \A j \in 1..Len(uploads) :
          WasAccepted(j) /\ uploads[j].left = "returned"
              => uploads[j].fraud_score >= 0 /\ uploads[j].fraud_score <= MAX_SCORE
    /\ \A b \in 1..Len(db.bills) :
          db.bills[b]["fraud_score"] >= 0 /\ db.bills[b]["fraud_score"] <= MAX_SCORE

\* C20: a bill is never its own duplicate, and the first upload of a
\* document to a project is never flagged as a duplicate.
C20_NeverOwnDuplicate ==
    \A j \in 1..Len(uploads) :
        WasAccepted(j) =>
            /\ uploads[j].duplicate_of # uploads[j].bill_id
            /\ EarlierSame(j) = {} => ~uploads[j].duplicate_detected

\* With the database available and bills stored for the project, the second
\* upload is the first of its document to that project (the first upload took
\* the same bytes to the other project) and is not flagged.
C20_Witness ==
    /\ db.available
    /\ Len(uploads) = 2
    /\ WasAccepted(2)
    /\ SameBytes(1, 2)
    /\ uploads[1].project # uploads[2].project
    /\ \E b \in 1..Len(db.bills) : db.bills[b]["project_id"] = uploads[2].project
    /\ ~uploads[2].duplicate_detected
    /\ uploads[2].duplicate_of # uploads[2].bill_id

\* The check of detect_fraud (1 invoice math, 2 tax identifier, 3 missing
\* fields, 4 line items) that writes a reason of the kind.
CheckOf(kind) ==
    CASE kind \in {"Invoice total mismatch", "Minor invoice total mismatch"} -> 1
      [] kind = "Invalid or missing GSTIN number" -> 2
      [] kind = "critical field(s) missing from invoice" -> 3
      [] kind \in {"No line items found in invoice",
                   "line item(s) with calculation errors"} -> 4

\* C21: the reasons are in the order of the checks (mismatch, tax identifier,
\* missing fields, line items), each check adds at most one reason to a run,
\* and the list is the one the input gives on a detector of its own.
C21_ReasonsInCheckOrder ==
    Returned =>
        /\ \A i, j \in 1..Len(result.reasons) :
              i < j => CheckOf(result.reasons[i].k) < CheckOf(result.reasons[j].k)
        /\ \A i \in 1..Len(result.progress) :
              result.progress[i].reasons <= Before(result.progress, i).reasons + 1
        /\ result.reasons = ReasonsOf(Alone(parsed_data))

\* A run with a minor mismatch first and miscalculated line items last, the
\* tax-identifier and missing-fields reasons between them.
C21_Witness ==
    /\ Returned
    /\ Len(result.reasons) = 4
    /\ result.reasons[1].k = "Minor invoice total mismatch"
    /\ result.reasons[2].k = "Invalid or missing GSTIN number"
    /\ result.reasons[3].k = "critical field(s) missing from invoice"
    /\ result.reasons[4].k = "line item(s) with calculation errors"

\* C26: for a line item whose total is given under total, amount, Amount or
\* TotalPrice, the value the sum check adds to sum_of_line_totals is the
\* value the per-item check compares with qty * rate, and an item with
\* qty * rate equal to that total is not counted as a calculation error.
C26_SameLineTotal ==
    Returned /\ LineItemsOf(parsed_data).t = "list" =>
        \A i \in 1..Len(Items) :
            HasGet(Items[i])
              /\ HasValue(Items[i], {"total", "amount", "Amount", "TotalPrice"}) =>
                /\ SumItemTotal(Items[i]) = ItemTotal(Items[i])
                /\ ItemQty(Items[i]) * ItemRate(Items[i]) = SumItemTotal(Items[i]) * Unit
                      => ~IsCalculationError(Items[i])

\* Whether the input carries a value for the field that counts as given
\* (anything but None, an empty text, 0 or an empty collection).
Given(data, field) == field \in DOMAIN data /\ Truthy(data[field])

\* Score and number of reasons the missing-fields check (check 3) added.
MissingAdded ==
    [score |-> result.progress[3].score - result.progress[2].score,
     reasons |-> result.progress[3].reasons - result.progress[2].reasons]

\* The fields among vendor, invoice number and total amount that are missing,
\* the total counted as given when the math check found a non-zero invoice
\* total under total_amount, InvoiceTotal or Amount.
MissingCount ==
    Cardinality({f \in {"vendor", "invoice_id"} : ~Given(parsed_data, f)})
        + (IF Report.validations.invoice_total # 0 \/ Given(parsed_data, "total_amount")
           THEN 0 ELSE 1)

\* C28: the missing-fields check adds 5 per missing field among vendor,
\* invoice number and total amount, at most 15, with one reason when any is
\* missing, and does not count the total as missing when the math check found
\* a non-zero invoice total under one of its aliases.
C28_MissingFieldsByAlias ==
    Returned =>
        /\ MissingAdded.score = 5 * MissingCount
        /\ MissingAdded.score <= 15
        /\ MissingAdded.reasons = (IF MissingCount > 0 THEN 1 ELSE 0)

\* C24: with the database available an upload that was scored returns, and a
\* bill row with its bill_id is then stored with status 'uploaded' and the
\* fraud_score of the response; the call does not fail at insert_bill.
C24_UploadStoresBill ==
    \A i \in 1..Len(uploads) :
        WasAccepted(i) /\ db.available /\ uploads[i].scored =>
            /\ uploads[i].left = "returned"
            /\ \E b \in 1..Len(db.bills) :
                  /\ db.bills[b]["bill_id"] = uploads[i].bill_id
                  /\ db.bills[b]["status"] = "uploaded"
                  /\ db.bills[b]["fraud_score"] = uploads[i].fraud_score

\* C25: an upload that returns a fraud_score > 0 returns fraud_reasons that
\* are non-empty and contain every reason detect_fraud produced for the bill.
C25_ReasonsReachCaller ==
    \A i \in 1..Len(uploads) :
        WasAccepted(i) /\ uploads[i].left = "returned" /\ uploads[i].fraud_score > 0 =>
            /\ uploads[i].fraud_reasons # <<>>
            /\ \A r \in 1..Len(uploads[i].detect_reasons) :
                  \E t \in 1..Len(uploads[i].fraud_reasons) :
                      uploads[i].fraud_reasons[t] = uploads[i].detect_reasons[r]

\* The status of each bill before and after the i-th approve/reject call.
StatusBefore(i, b) == decisions[i].before[b]["status"]
StatusAfter(i, b) == decisions[i].after[b]["status"]

\* C22: approved and rejected are terminal: no reject_bill call changes an
\* approved bill to rejected, and no approve_bill call changes a rejected
\* bill to approved.
C22_TerminalStatus ==
    \A i \in 1..Len(decisions) :
        \A b \in 1..Len(decisions[i].before) :
            /\ StatusBefore(i, b) = "approved" => StatusAfter(i, b) = "approved"
            /\ StatusBefore(i, b) = "rejected" => StatusAfter(i, b) = "rejected"

\* The bill with the id in a table that holds it.
BillOf(bills, bill_id) == bills[CHOOSE b \in 1..Len(bills) : bills[b]["bill_id"] = bill_id]

\* Sum of total_amount over the bills at the positions.
RECURSIVE TotalOver(_, _)
TotalOver(bills, positions) ==
    IF positions = {} THEN 0
    ELSE LET b == CHOOSE p \in positions : TRUE
         IN  bills[b]["total_amount"] + TotalOver(bills, positions \ {b})

\* Sum of total_amount over the approved bills of the project.
ApprovedTotal(bills, project_id) ==
    TotalOver(bills, {b \in 1..Len(bills) :
                         /\ bills[b]["project_id"] = project_id
                         /\ bills[b]["status"] = "approved"})

\* The spent figure list_projects reports for the project on the table.
SpentReported(bills, project_id) == list_projects(db.budgets, bills)[project_id].spent

Listed(project_id) == \E budget \in db.budgets : budget.project_id = project_id

\* C30: after a successful approve_bill the spent figure list_projects
\* reports for the bill's project has grown by the bill's total_amount, or is
\* unchanged when the bill was approved already; the figure is the sum over
\* the approved bills only; approve_bill or reject_bill on an unknown bill_id
\* returns 404 and changes no bill.
C30_ApproveCountsOnce ==
    \A i \in 1..Len(decisions) :
        /\ db.available /\ ~HasBill(decisions[i].before, decisions[i].bill_id)
              => decisions[i].code = 404
        /\ decisions[i].code = 404 => decisions[i].after = decisions[i].before
        /\ \A project_id \in Projects :
              Listed(project_id) =>
                  SpentReported(decisions[i].after, project_id)
                      = ApprovedTotal(decisions[i].after, project_id)
        /\ decisions[i].code = 200 /\ decisions[i].handler = "approve_bill"
              /\ Listed(BillOf(decisions[i].before, decisions[i].bill_id)["project_id"])
              => SpentReported(decisions[i].after,
                               BillOf(decisions[i].before, decisions[i].bill_id)["project_id"])
                   = SpentReported(decisions[i].before,
                                   BillOf(decisions[i].before, decisions[i].bill_id)["project_id"])
                     + (IF BillOf(decisions[i].before, decisions[i].bill_id)["status"] = "approved"
                        THEN 0
                        ELSE BillOf(decisions[i].before, decisions[i].bill_id)["total_amount"])

\* Bill 3 of the budgeted project p1 is approved twice while bill 1 of that
\* project stays uploaded, then a bill no row has is approved: spent is the
\* amount of bill 3 after the first call and after the second.
C30_Witness ==
    /\ Len(decisions) = 3
    /\ Listed("p1")
    /\ \A i \in 1..3 : decisions[i].handler = "approve_bill"
    /\ decisions[1].bill_id = 3 /\ decisions[1].code = 200
    /\ decisions[2].bill_id = 3 /\ decisions[2].code = 200
    /\ decisions[3].bill_id = 4 /\ decisions[3].code = 404
    /\ SpentReported(decisions[1].before, "p1") = 0
    /\ SpentReported(decisions[1].after, "p1") = Amount(250, 0)
    /\ SpentReported(decisions[2].after, "p1") = Amount(250, 0)
    /\ SpentReported(db.bills, "p1") = Amount(250, 0)

\* C27: every identifier of 15 digits and uppercase letters for which
\* validate_gstin reports valid_format = true is accepted by
\* FraudDetector._validate_gstin.
C27_CheckersAgree ==
    gstin_check.pc = "check" /\ gstin_check.validated /\ gstin_check.detected =>
        (gstin_check.validation.valid_format => gstin_check.accepted)

\* C23: without the model file score_line_items does not raise and returns
\* the marker 'model-not-trained' with an anomaly of 0 (nothing that
\* combine_signals reads as a mean anomaly other than 0), and combine_signals
\* on that result gives fraud_score = min(1.0, 0.6 * vendor_risk).
C23_UntrainedModelNeutral ==
    signals.pc # "idle" /\ ~signals.model_exists =>
        /\ signals.pc # "raised"
        /\ signals.pc \in {"scored", "combined"} =>
              /\ \E i \in 1..Len(signals.anomaly["reasons"].items) :
                    signals.anomaly["reasons"].items[i] = PyStr(model_not_trained)
              /\ signals.anomaly["anomaly_score"] = PyNum(0)
              /\ MeanAnomalyOf(signals.anomaly) = 0
        /\ signals.pc = "combined" =>
              signals.combined.fraud_score
                  = Min(Unit * Unit, 6 * (Unit \div 10) * VendorRiskOf(signals.mcp_outputs))

\* Without the model file a vendor risk of 2.0 is combined to the cap 1.0.
C23_Witness ==
    /\ signals.pc = "combined"
    /\ ~signals.model_exists
    /\ VendorRiskOf(signals.mcp_outputs) = 2 * Unit
    /\ signals.combined.fraud_score = Unit * Unit

====
